---- MODULE Spec2Model ----
(***************************************************************************)
(* Incremental chart cache of konnektaro-fin-be: the range reconciliation  *)
(* of getChartData / getChartDataAsQuotes over the chart repository        *)
(* (series row + points), the backfill lock and the no-older-data marker.  *)
(*                                                                         *)
(* One (symbol, interval) key is modelled.  A Date is an integer number of *)
(* ticks since the epoch, TicksPerDay ticks to a calendar day; the process *)
(* and the database session run in UTC, so local midnight is UTC midnight. *)
(* Every await of the source is a step boundary: between two awaits a call *)
(* runs atomically, and other calls may run at each await.                 *)
(***************************************************************************)
EXTENDS Integers, Sequences, FiniteSets, TLC

MaxDay == 3
NumCalls == 2
TicksPerDay == 2
MaxStarts == 2
MaxSeqStarts == 4
MaxFailStarts == 2
MaxRetryStarts == 2
MaxRetrySeqStarts == 4
MaxAnyStarts == 1
MaxRounds == 2
MaxRepoCalls == 3
MaxList == 2

BACKFILL_LOCK_TTL_SECONDS == 300
MAX_REQUESTS_PER_MINUTE == 3
MAX_RETRIES == 8
RETRY_DELAY_MS == 2000

\* null / NULL, an unparseable Date and a missing row: integers kept apart from every
\* Date, DATE and close the calls can form (no Date lies before the epoch minus one day)
Null == 0 - 4 * TicksPerDay
Invalid == Null - 1
Absent == Null - 2

\* no series row; nothing returned
NoRow == [row |-> FALSE]
NoRange == [range |-> FALSE]
NoResult == [result |-> FALSE]

Days == 1..MaxDay
Procs == 1..NumCalls
Ticks == 0..(TicksPerDay - 1)
Fns == {"chart", "quotes"}

VARIABLES
  upDays,   \* upstream: the calendar days for which the provider has a bar
  upTick,   \* upstream: the time of day (in ticks) the provider stamps on a bar
  series,   \* yahoo_chart_series row of the key: NoRow or [oldest, newest] (DATE or Null)
  points,   \* yahoo_chart_points of the key: trade_date -> close or Absent
  lock,     \* redis key yahoo:backfill_lock:<key>: "free", "held" (no expiry), "heldTTL"
  marker,   \* redis key yahoo:no_older:<key> present
  calls,    \* per call slot: the position and locals of one resolve call
  started,  \* number of calls entered so far
  rateKey,  \* redis key yahoo:rate_limit:requests: its count (0: no key) and whether it expires
  reqs      \* per caller slot: the position and locals of one executeWithRetry call

vars == <<upDays, upTick, series, points, lock, marker, calls, started, rateKey, reqs>>

----------------------------------------------------------------------------
(* Dates *)

\* date.toISOString().slice(0, 10): the UTC calendar date of a Date
formatDate(ts) == ts \div TicksPerDay

\* new Date(y, m, d) of the local date: midnight of the same day (UTC process)
getDateOnly(ts) == (ts \div TicksPerDay) * TicksPerDay

addDays(ts, n) == ts + n * TicksPerDay

\* a DATE column read back by the driver: a Date at midnight of that day
DateToTime(d) == IF d = Null THEN Null ELSE d * TicksPerDay

\* ${x}::date : the calendar date of a Date parameter, NULL stays NULL
SqlDate(ts) == IF ts = Null THEN Null ELSE formatDate(ts)

\* a relational comparison of a Date with null coerces null to 0; new Date(null) is the epoch
ToNumber(x) == IF x = Null THEN 0 ELSE x

\* Math.floor(date.getTime() / 1000)
EpochSeconds(ts) == ts * (86400 \div TicksPerDay)

Point(ts, c) == [date |-> ts, close |-> c]

----------------------------------------------------------------------------
(* Sequences helpers *)

SeqRange(s) == {s[i] : i \in 1..Len(s)}

SetMin(S) == CHOOSE x \in S : \A y \in S : x <= y
SetMax(S) == CHOOSE x \in S : \A y \in S : x >= y

\* the sequences that list every element of the finite set S once
Perms(S) ==
  {q \in [1..Cardinality(S) -> S] : \A i, j \in 1..Cardinality(S) : q[i] = q[j] => i = j}

RECURSIVE SortByDate(_)
\* array.sort((a, b) => a.date.getTime() - b.date.getTime()) of points with distinct dates
SortByDate(S) ==
  IF S = {} THEN <<>>
  ELSE LET m == CHOOSE x \in S : \A y \in S : x.date <= y.date
       IN  <<m>> \o SortByDate(S \ {m})

----------------------------------------------------------------------------
(* Chart repository (yahoo_chart_series, yahoo_chart_points) *)

\* a LEAST that yields NULL as soon as one argument is NULL
LEASTNullPropagating(a, b) == IF a = Null \/ b = Null THEN Null ELSE IF a <= b THEN a ELSE b

\* LEAST / GREATEST of PostgreSQL: NULL arguments are ignored
LEAST(a, b) == IF a = Null THEN b ELSE IF b = Null THEN a ELSE IF a <= b THEN a ELSE b
GREATEST(a, b) == IF a = Null THEN b ELSE IF b = Null THEN a ELSE IF a >= b THEN a ELSE b

\* getStoredRange: null without a row, else the two DATE columns as Dates
getStoredRange(s) ==
  IF s = NoRow THEN NoRange
  ELSE [oldestDate |-> DateToTime(s.oldest), newestDate |-> DateToTime(s.newest)]

RECURSIVE PointsBetween(_, _, _)
PointsBetween(pts, d, hi) ==
  IF d > hi THEN <<>>
  ELSE (IF d \in DOMAIN pts /\ pts[d] # Absent
          THEN <<Point(DateToTime(d), pts[d])>> ELSE <<>>)
       \o PointsBetween(pts, d + 1, hi)

\* getPoints: the rows with period1::date <= trade_date <= period2::date, ascending
getPoints(pts, period1, period2) ==
  LET lo == SqlDate(period1)
      hi == SqlDate(period2)
  IN  PointsBetween(pts, IF lo < 1 THEN 1 ELSE lo, IF hi > MaxDay THEN MaxDay ELSE hi)

\* insertPoints, first statement: INSERT (.., NULL, NULL) ON CONFLICT DO NOTHING
InsertSeriesRow(s) == IF s = NoRow THEN [oldest |-> Null, newest |-> Null] ELSE s

\* an insert that keeps the stored row on a conflict (ON CONFLICT DO NOTHING)
UpsertPointKeepStored(pts, q) ==
  IF q.date = Invalid \/ pts[formatDate(q.date)] # Absent THEN pts
  ELSE [pts EXCEPT ![formatDate(q.date)] = q.close]

\* insertPoints, loop body: skip an invalid date, else upsert on (key, trade_date)
UpsertPoint(pts, q) ==
  IF q.date = Invalid THEN pts ELSE [pts EXCEPT ![formatDate(q.date)] = q.close]

\* an updateRange that assigns the non-null arguments instead of merging them
updateRangeOverwrite(s, oldestDate, newestDate) ==
  IF s = NoRow THEN s
  ELSE [oldest |-> IF SqlDate(oldestDate) = Null THEN s.oldest ELSE SqlDate(oldestDate),
        newest |-> IF SqlDate(newestDate) = Null THEN s.newest ELSE SqlDate(newestDate)]

\* updateRange: the UPDATE with the two CASE expressions; no row, no effect
updateRange(s, oldestDate, newestDate) ==
  IF s = NoRow THEN s
  ELSE [oldest |-> IF s.oldest = Null THEN SqlDate(oldestDate)
                   ELSE IF SqlDate(oldestDate) = Null THEN s.oldest
                   ELSE LEAST(s.oldest, SqlDate(oldestDate)),
        newest |-> IF s.newest = Null THEN SqlDate(newestDate)
                   ELSE IF SqlDate(newestDate) = Null THEN s.newest
                   ELSE GREATEST(s.newest, SqlDate(newestDate))]

\* an initializeSeriesRange that overwrites the row on a conflict
initializeSeriesRangeOverwrite(s, oldestDate, newestDate) ==
  [oldest |-> SqlDate(oldestDate), newest |-> SqlDate(newestDate)]

\* initializeSeriesRange: INSERT .. ON CONFLICT DO UPDATE SET LEAST / GREATEST
initializeSeriesRange(s, oldestDate, newestDate) ==
  IF s = NoRow THEN [oldest |-> SqlDate(oldestDate), newest |-> SqlDate(newestDate)]
  ELSE [oldest |-> LEAST(s.oldest, SqlDate(oldestDate)),
        newest |-> GREATEST(s.newest, SqlDate(newestDate))]

----------------------------------------------------------------------------
(* Chart cache service: pure helpers *)

\* sanitizeQuotes: drop the entries without a valid date
sanitizeQuotes(quotes) == SelectSeq(quotes, LAMBDA q : q.date # Invalid)

\* the value a Map keyed by formatDate holds for key k after seq was set in order
HasKey(seq, k) == \E i \in 1..Len(seq) : formatDate(seq[i].date) = k
LastWithKey(seq, k) == seq[SetMax({i \in 1..Len(seq) : formatDate(seq[i].date) = k})]

\* mergePoints: existing then newPoints into a Map keyed by calendar date, sorted by time
mergePoints(existing, newPoints) ==
  LET keys == {formatDate(q.date) : q \in SeqRange(existing) \cup SeqRange(newPoints)}
      val(k) == IF HasKey(newPoints, k)
                  THEN LastWithKey(newPoints, k) ELSE LastWithKey(existing, k)
  IN  SortByDate({val(k) : k \in keys})

\* a final filter that excludes the upper bound
filterPointsExclusive(allPoints, period1, period2) ==
  SelectSeq(allPoints, LAMBDA p : p.date >= period1 /\ p.date < period2)

\* the final filter of getChartData / getChartDataAsQuotes
filterPoints(allPoints, period1, period2) ==
  SelectSeq(allPoints, LAMBDA p : p.date >= period1 /\ p.date <= period2)

\* a chart shape whose timestamps are getTime() itself, in milliseconds
chartResultMillis(qs) ==
  [timestamp |-> [i \in 1..Len(qs) |-> EpochSeconds(qs[i].date) * 1000],
   closes    |-> [i \in 1..Len(qs) |-> qs[i].close]]

\* the two return shapes
chartResult(qs) ==
  [timestamp |-> [i \in 1..Len(qs) |-> EpochSeconds(qs[i].date)],
   closes    |-> [i \in 1..Len(qs) |-> qs[i].close]]
quotesResult(qs) == [quotes |-> qs]
formatResult(fn, qs) == IF fn = "chart" THEN chartResult(qs) ELSE quotesResult(qs)

needOlder(c) == c.oldestDate = Null \/ c.p1 < c.oldestDate
needNewer(c) == c.newestDate = Null \/ c.p2 > c.newestDate

\* hasCompleteCoverage of getChartData
hasCompleteCoverage(c, dbPoints) ==
  /\ c.oldestDate # Null
  /\ c.newestDate # Null
  /\ c.p1 >= c.oldestDate
  /\ c.p2 <= c.newestDate
  /\ Len(dbPoints) > 0

\* period1 / period2 handed to getChart on each fetch site
FetchStart(c) ==
  CASE c.edge = "cold"      -> c.p1
    [] c.edge = "older"     -> c.p1
    [] c.edge = "newer"     -> addDays(c.newestDate, 1)
    [] c.edge = "initOlder" -> c.p1
    [] c.edge = "initNewer" ->
         IF c.p1 > ToNumber(c.oldestDate) THEN c.p1 ELSE addDays(ToNumber(c.oldestDate), 1)

\* an older-edge sub-range that ends on the stored oldest day itself
FetchEndOnOldest(c) ==
  CASE c.edge = "cold"      -> c.p2
    [] c.edge = "older"     -> c.oldestDate
    [] c.edge = "newer"     -> c.p2
    [] c.edge = "initOlder" ->
         IF c.p2 < ToNumber(c.newestDate) THEN c.p2 ELSE addDays(ToNumber(c.newestDate), -1)
    [] c.edge = "initNewer" -> c.p2

FetchEnd(c) ==
  CASE c.edge = "cold"      -> c.p2
    [] c.edge = "older"     -> addDays(c.oldestDate, -1)
    [] c.edge = "newer"     -> c.p2
    [] c.edge = "initOlder" ->
         IF c.p2 < ToNumber(c.newestDate) THEN c.p2 ELSE addDays(ToNumber(c.newestDate), -1)
    [] c.edge = "initNewer" -> c.p2

\* the four guarded blocks of the warm path, in source order
EdgeOrder == <<"older", "newer", "initOlder", "initNewer">>

EdgeIndex(e) == CHOOSE i \in 0..Len(EdgeOrder) : IF i = 0 THEN e = "cold" ELSE EdgeOrder[i] = e

\* the null-bound blocks entered whatever the stored bound is
EdgeWantedIgnoringNull(c, e) ==
  CASE e = "older"     -> needOlder(c) /\ c.oldestDate # Null
    [] e = "newer"     -> /\ needNewer(c) /\ c.newestDate # Null
                          /\ addDays(c.newestDate, 1) <= c.p2
    [] e = "initOlder" -> needOlder(c)
    [] e = "initNewer" -> needNewer(c)

\* the condition under which a block reaches its first await
EdgeWanted(c, e) ==
  CASE e = "older"     -> needOlder(c) /\ c.oldestDate # Null
    [] e = "newer"     -> /\ needNewer(c) /\ c.newestDate # Null
                          /\ addDays(c.newestDate, 1) <= c.p2
    [] e = "initOlder" -> needOlder(c) /\ c.oldestDate = Null
    [] e = "initNewer" -> needNewer(c) /\ c.newestDate = Null

\* the first await of a block: the marker read for the older edge, setNX for the others
EdgeEntry(e) == IF e = "older" THEN "checkNoOlderData" ELSE "setNX"

\* the call after block number i is over: at the next wanted block, or at the final read
AfterEdge(c, i) ==
  LET J == {j \in (i + 1)..Len(EdgeOrder) : EdgeWanted(c, EdgeOrder[j])}
  IN  IF J = {}
        THEN [c EXCEPT !.pc = "finalRead", !.edge = "none", !.quotes = <<>>, !.idx = 0]
        ELSE [c EXCEPT !.pc = EdgeEntry(EdgeOrder[SetMin(J)]), !.edge = EdgeOrder[SetMin(J)],
                       !.quotes = <<>>, !.idx = 0]

----------------------------------------------------------------------------
(* Upstream provider, reached through getChart *)

\* provider closes are a fixed function of the day
CloseOf(d) == 10 * d

\* the bars the provider has for the calendar days of [period1, period2]
UpstreamPoints(period1, period2) ==
  {Point(d * TicksPerDay + upTick, CloseOf(d)) :
     d \in {x \in upDays : formatDate(period1) <= x /\ x <= formatDate(period2)}}

\* the provider returns them in any order
Responses(period1, period2) == Perms(UpstreamPoints(period1, period2))

----------------------------------------------------------------------------
(* Upstream client: executeWithRetry behind enforceRateLimit *)

\* what the operation can throw: an optional status and a message, a list of phrases
Statuses == {Null, 429, 500}
Messages == {<<>>, <<"HTTP", "429">>, <<"Too Many Requests">>, <<"Failed to get crumb">>,
             <<"socket hang up">>}
Errors == [status : Statuses, message : Messages]

NoError == [error |-> FALSE]

\* new Error('Max retries exceeded')
MaxRetriesExceeded == [status |-> Null, message |-> <<"Max retries exceeded">>]

\* message.includes(phrase)
Includes(message, phrase) == \E i \in 1..Len(message) : message[i] = phrase

\* an isRateLimitError that takes every error with a status for throttling
isRateLimitErrorAnyStatus(error) ==
  \/ error.status # Null
  \/ Includes(error.message, "429")
  \/ Includes(error.message, "Too Many Requests")
  \/ Includes(error.message, "Failed to get crumb")

isRateLimitError(error) ==
  \/ error.status = 429
  \/ Includes(error.message, "429")
  \/ Includes(error.message, "Too Many Requests")
  \/ Includes(error.message, "Failed to get crumb")

\* (sent: the operation invocations made while the key has been alive, a history
\* that stops counting one past MAX_REQUESTS_PER_MINUTE)
NoRateKey == [count |-> 0, expires |-> FALSE, sent |-> 0]

IdleReq ==
  [pc |-> "idle", fn |-> "getChart", wait |-> "none", rounds |-> 0,
   attempt |-> 0, invocations |-> 0, backoff |-> 0, last |-> NoError, error |-> NoError]

----------------------------------------------------------------------------
(* Calls *)

\* the Dates a caller may pass as period1 / period2
Times == {d * TicksPerDay + t : d \in Days, t \in Ticks}

IdleCall ==
  [pc |-> "idle", fn |-> "chart", p1 |-> 0, p2 |-> 0,
   oldestDate |-> Null, newestDate |-> Null, edge |-> "none",
   quotes |-> <<>>, idx |-> 0, pointsToMerge |-> <<>>,
   ret |-> NoResult, err |-> "none", fetches |-> {}, failed |-> {}, denied |-> {}]

\* the call has returned r (err = "none") or thrown (err names the failing collaborator)
Done(c, r, e) ==
  [IdleCall EXCEPT !.pc = "done", !.fn = c.fn, !.p1 = c.p1, !.p2 = c.p2,
                   !.ret = r, !.err = e, !.fetches = c.fetches, !.failed = c.failed,
                   !.denied = c.denied]

Active(p) == calls[p].pc \notin {"idle", "done"}

\* the call whose current await threw: the block and the await are noted in failed
Threw(c) == [c EXCEPT !.failed = @ \cup {<<c.edge, c.pc>>}]

\* call p as its current await leaves it: answered (ok) or thrown
Called(p, ok) == IF ok THEN calls[p] ELSE Threw(calls[p])

QuoteTimes(c) == {c.quotes[i].date : i \in 1..Len(c.quotes)}

\* the tables as a cold-start resolve of [a, b] that ran alone left them: the bars the
\* provider has for [a, b], and their first and last day as the range (ColdStartExact)
StoreAfterColdStart(a, b) ==
  LET S == {d \in upDays : a <= d /\ d <= b}
  IN  [series |-> IF S = {} THEN NoRow ELSE [oldest |-> SetMin(S), newest |-> SetMax(S)],
       points |-> [d \in Days |-> IF d \in S THEN CloseOf(d) ELSE Absent]]

\* a fresh database, redis without keys, no call running
InitCold ==
  /\ upDays \in SUBSET Days
  /\ upTick \in Ticks
  /\ series = NoRow
  /\ points = [d \in Days |-> Absent]
  /\ lock = "free"
  /\ marker = FALSE
  /\ calls = [p \in Procs |-> IdleCall]
  /\ started = 0
  /\ rateKey = NoRateKey
  /\ reqs = [p \in Procs |-> IdleReq]

\* the process starts on a database that is fresh or that an earlier cold start filled
Init ==
  /\ upDays \in SUBSET Days
  /\ upTick \in Ticks
  /\ \E a, b \in Days :
       /\ series = StoreAfterColdStart(a, b).series
       /\ points = StoreAfterColdStart(a, b).points
  /\ lock = "free"
  /\ marker = FALSE
  /\ calls = [p \in Procs |-> IdleCall]
  /\ started = 0
  /\ rateKey = NoRateKey
  /\ reqs = [p \in Procs |-> IdleReq]

\* entry of getChartData / getChartDataAsQuotes: normalize the two bounds
\* (a new call takes the lowest free slot; slots are interchangeable)
Start(p, limit) ==
  /\ ~Active(p)
  /\ \A q \in Procs : q < p => Active(q)
  /\ started < limit
  /\ started' = started + 1
  /\ \E fn \in Fns, period1, period2 \in Times :
       /\ period1 <= period2
       /\ calls' = [calls EXCEPT ![p] =
            [IdleCall EXCEPT !.pc = "getStoredRange", !.fn = fn,
                             !.p1 = getDateOnly(period1), !.p2 = getDateOnly(period2)]]
  /\ UNCHANGED <<rateKey, reqs, upDays, upTick, series, points, lock, marker>>

\* await getStoredRange, then the branch taken on its result
GetStoredRange(p, ok) ==
  LET c == Called(p, ok)
      r == getStoredRange(series)
      w == [c EXCEPT !.oldestDate = r.oldestDate, !.newestDate = r.newestDate]
  IN  /\ c.pc = "getStoredRange"
      /\ calls' = [calls EXCEPT ![p] =
           IF ~ok THEN Done(c, NoResult, "store")
           ELSE IF r = NoRange THEN [c EXCEPT !.pc = "fetch", !.edge = "cold"]
           ELSE IF c.fn = "chart" THEN [w EXCEPT !.pc = "getPoints"]
           ELSE AfterEdge(w, 0)]
      /\ UNCHANGED <<rateKey, reqs, upDays, upTick, series, points, lock, marker, started>>

\* getChartData only: await getPoints, then the complete-coverage return
GetPointsFirst(p, ok) ==
  LET c == Called(p, ok)
      dbPoints == getPoints(points, c.p1, c.p2)
  IN  /\ c.pc = "getPoints"
      /\ calls' = [calls EXCEPT ![p] =
           IF ~ok THEN Done(c, NoResult, "store")
           ELSE IF hasCompleteCoverage(c, dbPoints)
             THEN Done(c, formatResult(c.fn, dbPoints), "none")
           ELSE AfterEdge(c, 0)]
      /\ UNCHANGED <<rateKey, reqs, upDays, upTick, series, points, lock, marker, started>>

\* a marker check that never finds the marker
CheckNoOlderDataNeverFlagged(p, ok) ==
  LET c == Called(p, ok)
      flagged == FALSE
      backfillStart == c.p1
      backfillEnd == addDays(c.oldestDate, -1)
  IN  /\ c.pc = "checkNoOlderData"
      /\ calls' = [calls EXCEPT ![p] =
           IF ~flagged /\ backfillStart <= backfillEnd
             THEN [c EXCEPT !.pc = "setNX"]
             ELSE AfterEdge(c, EdgeIndex(c.edge))]
      /\ UNCHANGED <<rateKey, reqs, upDays, upTick, series, points, lock, marker, started>>

\* a marker check that reports the marker as set when redis fails
CheckNoOlderDataFailsClosed(p, ok) ==
  LET c == Called(p, ok)
      flagged == ~ok \/ marker
      backfillStart == c.p1
      backfillEnd == addDays(c.oldestDate, -1)
  IN  /\ c.pc = "checkNoOlderData"
      /\ calls' = [calls EXCEPT ![p] =
           IF ~flagged /\ backfillStart <= backfillEnd
             THEN [c EXCEPT !.pc = "setNX"]
             ELSE AfterEdge(c, EdgeIndex(c.edge))]
      /\ UNCHANGED <<rateKey, reqs, upDays, upTick, series, points, lock, marker, started>>

\* await checkNoOlderData (false when redis fails), then the sub-range test
CheckNoOlderData(p, ok) ==
  LET c == Called(p, ok)
      flagged == ok /\ marker
      backfillStart == c.p1
      backfillEnd == addDays(c.oldestDate, -1)
  IN  /\ c.pc = "checkNoOlderData"
      /\ calls' = [calls EXCEPT ![p] =
           IF ~flagged /\ backfillStart <= backfillEnd
             THEN [c EXCEPT !.pc = "setNX"]
             ELSE AfterEdge(c, EdgeIndex(c.edge))]
      /\ UNCHANGED <<rateKey, reqs, upDays, upTick, series, points, lock, marker, started>>

\* acquireBackfillLock, first await: setNX; denied or redis error returns false
SetNX(p, ok) ==
  LET c == Called(p, ok)
      d == IF ok THEN [c EXCEPT !.denied = @ \cup {c.edge}] ELSE c
  IN  /\ c.pc = "setNX"
      /\ IF ok /\ lock = "free"
           THEN /\ lock' = "held"
                /\ calls' = [calls EXCEPT ![p] = [c EXCEPT !.pc = "expire"]]
           ELSE /\ lock' = lock
                /\ calls' = [calls EXCEPT ![p] = AfterEdge(d, EdgeIndex(c.edge))]
      /\ UNCHANGED <<rateKey, reqs, upDays, upTick, series, points, marker, started>>

\* acquireBackfillLock, second await: expire; a redis error returns false
Expire(p, ok) ==
  LET c == Called(p, ok)
  IN  /\ c.pc = "expire"
      /\ IF ok
           THEN /\ lock' = (IF lock = "free" THEN "free" ELSE "heldTTL")
                /\ calls' = [calls EXCEPT ![p] = [c EXCEPT !.pc = "fetch"]]
           ELSE /\ lock' = lock
                /\ calls' = [calls EXCEPT ![p] = AfterEdge(c, EdgeIndex(c.edge))]
      /\ UNCHANGED <<rateKey, reqs, upDays, upTick, series, points, marker, started>>

\* a getChart error that is swallowed on every fetch site, cold start included
FetchFailedSwallowed(c) ==
  IF c.edge = "cold" THEN Done(c, formatResult(c.fn, <<>>), "none")
  ELSE [c EXCEPT !.pc = "releaseBackfillLock"]

\* the call once getChart has thrown: rethrown on cold start, caught on an edge
FetchFailed(c) ==
  IF c.edge = "cold" THEN Done(c, NoResult, "upstream")
  ELSE [c EXCEPT !.pc = "releaseBackfillLock"]

\* a cold start that raises when the provider has no data
FetchReturnedThrowsOnEmpty(c, quotes) ==
  IF Len(quotes) = 0
    THEN IF c.edge = "cold" THEN Done(c, NoResult, "upstream")
         ELSE IF c.edge = "older" THEN [c EXCEPT !.pc = "setNoOlderData"]
         ELSE [c EXCEPT !.pc = "releaseBackfillLock"]
    ELSE [c EXCEPT !.pc = "insertSeries", !.quotes = quotes]

\* the call once getChart has returned and the quotes are sanitized
FetchReturned(c, quotes) ==
  IF Len(quotes) = 0
    THEN IF c.edge = "cold" THEN Done(c, formatResult(c.fn, <<>>), "none")
         ELSE IF c.edge = "older" THEN [c EXCEPT !.pc = "setNoOlderData"]
         ELSE [c EXCEPT !.pc = "releaseBackfillLock"]
    ELSE [c EXCEPT !.pc = "insertSeries", !.quotes = quotes]

\* await fetchChartFromYahoo on any of the five fetch sites, then sanitizeQuotes
Fetch(p, ok) ==
  LET c == Called(p, ok)
      f == [c EXCEPT !.fetches = @ \cup {<<c.edge, FetchStart(c), FetchEnd(c)>>}]
  IN  /\ c.pc = "fetch"
      /\ IF ~ok
           THEN calls' = [calls EXCEPT ![p] = FetchFailed(f)]
           ELSE \E resp \in Responses(FetchStart(c), FetchEnd(c)) :
                  calls' = [calls EXCEPT ![p] = FetchReturned(f, sanitizeQuotes(resp))]
      /\ UNCHANGED <<rateKey, reqs, upDays, upTick, series, points, lock, marker, started>>

\* where a failed store statement leaves the call: thrown on cold start, caught on an edge
StoreFailed(c) ==
  IF c.edge = "cold" THEN Done(c, NoResult, "store")
  ELSE [c EXCEPT !.pc = "releaseBackfillLock", !.quotes = <<>>, !.idx = 0]

\* insertPoints, first await: make sure the series row exists
InsertSeries(p, ok) ==
  LET c == Called(p, ok)
  IN  /\ c.pc = "insertSeries"
      /\ IF ok
           THEN /\ series' = InsertSeriesRow(series)
                /\ calls' = [calls EXCEPT ![p] = [c EXCEPT !.pc = "insertPoint", !.idx = 1]]
           ELSE /\ series' = series
                /\ calls' = [calls EXCEPT ![p] = StoreFailed(c)]
      /\ UNCHANGED <<rateKey, reqs, upDays, upTick, points, lock, marker, started>>

\* insertPoints, one await of the loop: upsert quotes[idx]
InsertPoint(p, ok) ==
  LET c == Called(p, ok)
  IN  /\ c.pc = "insertPoint"
      /\ IF ok
           THEN /\ points' = UpsertPoint(points, c.quotes[c.idx])
                /\ calls' = [calls EXCEPT ![p] =
                     IF c.idx < Len(c.quotes) THEN [c EXCEPT !.idx = c.idx + 1]
                     ELSE IF c.edge = "cold"
                       THEN [c EXCEPT !.pc = "initializeSeriesRange", !.idx = 0]
                     ELSE [c EXCEPT !.pc = "updateRange", !.idx = 0,
                                    !.pointsToMerge = @ \o c.quotes]]
           ELSE /\ points' = points
                /\ calls' = [calls EXCEPT ![p] = StoreFailed(c)]
      /\ UNCHANGED <<rateKey, reqs, upDays, upTick, series, lock, marker, started>>

\* await updateRange with the oldest (older sides) or newest (newer sides) fetched date
UpdateRange(p, ok) ==
  LET c == Called(p, ok)
      oldestFetched == SetMin(QuoteTimes(c))
      newestFetched == SetMax(QuoteTimes(c))
  IN  /\ c.pc = "updateRange"
      /\ series' = IF ~ok THEN series
                   ELSE IF c.edge \in {"older", "initOlder"}
                     THEN updateRange(series, oldestFetched, Null)
                     ELSE updateRange(series, Null, newestFetched)
      /\ calls' = [calls EXCEPT ![p] =
           [c EXCEPT !.pc = "releaseBackfillLock", !.quotes = <<>>]]
      /\ UNCHANGED <<rateKey, reqs, upDays, upTick, points, lock, marker, started>>

\* cold start: await initializeSeriesRange(minDate, maxDate), then return the quotes
InitializeSeriesRange(p, ok) ==
  LET c == Called(p, ok)
      minDate == SetMin(QuoteTimes(c))
      maxDate == SetMax(QuoteTimes(c))
  IN  /\ c.pc = "initializeSeriesRange"
      /\ IF ok
           THEN /\ series' = initializeSeriesRange(series, minDate, maxDate)
                /\ calls' = [calls EXCEPT ![p] = Done(c, formatResult(c.fn, c.quotes), "none")]
           ELSE /\ series' = series
                /\ calls' = [calls EXCEPT ![p] = Done(c, NoResult, "store")]
      /\ UNCHANGED <<rateKey, reqs, upDays, upTick, points, lock, marker, started>>

\* await setNoOlderData: setEx of the marker; a redis error is swallowed
SetNoOlderData(p, ok) ==
  LET c == Called(p, ok)
  IN  /\ c.pc = "setNoOlderData"
      /\ marker' = (ok \/ marker)
      /\ calls' = [calls EXCEPT ![p] = [c EXCEPT !.pc = "releaseBackfillLock"]]
      /\ UNCHANGED <<rateKey, reqs, upDays, upTick, series, points, lock, started>>

\* finally: await releaseBackfillLock: del of the lock key; a redis error is swallowed
ReleaseBackfillLock(p, ok) ==
  LET c == Called(p, ok)
  IN  /\ c.pc = "releaseBackfillLock"
      /\ lock' = (IF ok THEN "free" ELSE lock)
      /\ calls' = [calls EXCEPT ![p] = AfterEdge(c, EdgeIndex(c.edge))]
      /\ UNCHANGED <<rateKey, reqs, upDays, upTick, series, points, marker, started>>

\* the last await getPoints, then merge, filter, sort and return
FinalRead(p, ok) ==
  LET c == Called(p, ok)
      dbPoints == getPoints(points, c.p1, c.p2)
      allPoints == mergePoints(dbPoints, c.pointsToMerge)
      filteredPoints == filterPoints(allPoints, c.p1, c.p2)
  IN  /\ c.pc = "finalRead"
      /\ calls' = [calls EXCEPT ![p] =
           IF ok THEN Done(c, formatResult(c.fn, filteredPoints), "none")
           ELSE Done(c, NoResult, "store")]
      /\ UNCHANGED <<rateKey, reqs, upDays, upTick, series, points, lock, marker, started>>

\* a call is between a granted acquireBackfillLock and the end of its releaseBackfillLock
InBackfill(p) ==
  /\ calls[p].edge \in SeqRange(EdgeOrder)
  /\ calls[p].pc \in {"fetch", "insertSeries", "insertPoint", "updateRange",
                      "setNoOlderData", "releaseBackfillLock"}

\* one getChart can last longer than the lock: the backoff sleeps of executeWithRetry alone
\* add up to RETRY_DELAY_MS * (2^0 + .. + 2^(MAX_RETRIES - 1))
FetchCanOutliveLock ==
  RETRY_DELAY_MS * (2 ^ MAX_RETRIES - 1) > BACKFILL_LOCK_TTL_SECONDS * 1000

\* redis drops the lock key when its expiry (BACKFILL_LOCK_TTL_SECONDS) has run out
LockExpire ==
  /\ lock = "heldTTL"
  /\ (\E p \in Procs : InBackfill(p)) => FetchCanOutliveLock
  /\ lock' = "free"
  /\ UNCHANGED <<rateKey, reqs, upDays, upTick, series, points, marker, calls, started>>

\* redis drops the marker when its expiry (NO_OLDER_DATA_TTL_SECONDS) has run out
MarkerExpire ==
  /\ marker
  /\ marker' = FALSE
  /\ UNCHANGED <<rateKey, reqs, upDays, upTick, series, points, lock, calls, started>>

\* one step of call p; ok = FALSE is the awaited collaborator failing
CallStep(p, ok) ==
  \/ GetStoredRange(p, ok)
  \/ GetPointsFirst(p, ok)
  \/ CheckNoOlderData(p, ok)
  \/ SetNX(p, ok)
  \/ Expire(p, ok)
  \/ Fetch(p, ok)
  \/ InsertSeries(p, ok)
  \/ InsertPoint(p, ok)
  \/ UpdateRange(p, ok)
  \/ InitializeSeriesRange(p, ok)
  \/ SetNoOlderData(p, ok)
  \/ ReleaseBackfillLock(p, ok)
  \/ FinalRead(p, ok)

\* concurrent calls whose collaborators answer; redis keys may expire at any time
Next ==
  \/ \E p \in Procs : Start(p, MaxStarts)
  \/ \E p \in Procs : CallStep(p, TRUE)
  \/ LockExpire
  \/ MarkerExpire

Spec == Init /\ [][Next]_vars

\* concurrent calls under a lock that never expires while it is held
NextHeld ==
  \/ \E p \in Procs : Start(p, MaxStarts)
  \/ \E p \in Procs : CallStep(p, TRUE)

SpecHeld == Init /\ [][NextHeld]_vars

\* one call at a time on a fresh database, no failing collaborator, no expiry
\* (the calls lie within the marker's lifetime)
NextSeq ==
  \/ Start(1, MaxSeqStarts)
  \/ CallStep(1, TRUE)

SpecSeq == InitCold /\ [][NextSeq]_vars

\* one call at a time, no failing collaborator; the redis keys expire at any time
NextSeqExpire ==
  \/ Start(1, MaxSeqStarts)
  \/ CallStep(1, TRUE)
  \/ LockExpire
  \/ MarkerExpire

SpecSeqExpire == Init /\ [][NextSeqExpire]_vars

\* one call at a time; any awaited collaborator (store, redis, provider) may fail
NextFail ==
  \/ Start(1, MaxFailStarts)
  \/ \E ok \in BOOLEAN : CallStep(1, ok)
  \/ LockExpire
  \/ MarkerExpire

SpecFail == Init /\ [][NextFail]_vars

----------------------------------------------------------------------------
(* A provider that answers with any quotes: several bars on one calendar day (intraday
   intervals), bars outside the period asked for, entries without a valid date *)

\* await fetchChartFromYahoo answered with any list of quotes, then sanitizeQuotes
FetchAny(p) ==
  LET c == calls[p]
      f == [c EXCEPT !.fetches = @ \cup {<<c.edge, FetchStart(c), FetchEnd(c)>>}]
  IN  /\ c.pc = "fetch"
      /\ \E resp \in UNION {[1..n -> {Point(t, CloseOf(d)) : t \in Times \cup {Invalid},
                                                           d \in Days}] : n \in 0..MaxList} :
           calls' = [calls EXCEPT ![p] = FetchReturned(f, sanitizeQuotes(resp))]
      /\ UNCHANGED <<rateKey, reqs, upDays, upTick, series, points, lock, marker, started>>

\* one step of call p, no collaborator failing, the provider answering anything
CallStepAny(p) ==
  \/ GetStoredRange(p, TRUE)
  \/ GetPointsFirst(p, TRUE)
  \/ CheckNoOlderData(p, TRUE)
  \/ SetNX(p, TRUE)
  \/ Expire(p, TRUE)
  \/ FetchAny(p)
  \/ InsertSeries(p, TRUE)
  \/ InsertPoint(p, TRUE)
  \/ UpdateRange(p, TRUE)
  \/ InitializeSeriesRange(p, TRUE)
  \/ SetNoOlderData(p, TRUE)
  \/ ReleaseBackfillLock(p, TRUE)
  \/ FinalRead(p, TRUE)

\* one call on a database that is fresh or that an earlier cold start filled
NextAny ==
  \/ Start(1, MaxAnyStarts)
  \/ CallStepAny(1)

InitAny == Init /\ upDays = Days /\ upTick = 0

SpecAny == InitAny /\ [][NextAny]_vars

----------------------------------------------------------------------------
(* The repository called directly: any order, any arguments *)

RECURSIVE UpsertAll(_, _)
UpsertAll(pts, qs) ==
  IF qs = <<>> THEN pts ELSE UpsertAll(UpsertPoint(pts, Head(qs)), Tail(qs))

\* insertPoints run to its end by one caller: nothing for an empty list, else the row, then the loop
insertPoints(store, qs) ==
  IF Len(qs) = 0 THEN store
  ELSE [series |-> InsertSeriesRow(store.series), points |-> UpsertAll(store.points, qs)]

RepoDates == Times \cup {Null}
RepoQuotes == {Point(t, CloseOf(d)) : t \in Times \cup {Invalid}, d \in Days}
RepoLists == UNION {[1..n -> RepoQuotes] : n \in 0..MaxList}

RepoUpdateRange ==
  /\ started < MaxRepoCalls
  /\ \E o, n \in RepoDates : series' = updateRange(series, o, n)
  /\ started' = started + 1
  /\ UNCHANGED <<rateKey, reqs, upDays, upTick, points, lock, marker, calls>>

RepoInitializeSeriesRange ==
  /\ started < MaxRepoCalls
  /\ \E o, n \in RepoDates : series' = initializeSeriesRange(series, o, n)
  /\ started' = started + 1
  /\ UNCHANGED <<rateKey, reqs, upDays, upTick, points, lock, marker, calls>>

RepoInsertPoints ==
  /\ started < MaxRepoCalls
  /\ \E qs \in RepoLists :
       /\ series' = insertPoints([series |-> series, points |-> points], qs).series
       /\ points' = insertPoints([series |-> series, points |-> points], qs).points
  /\ started' = started + 1
  /\ UNCHANGED <<rateKey, reqs, upDays, upTick, lock, marker, calls>>

NextRepo ==
  \/ RepoUpdateRange
  \/ RepoInitializeSeriesRange
  \/ RepoInsertPoints

SpecRepo == InitCold /\ [][NextRepo]_vars

\* the two range writers alone, in any order and with any arguments
NextRange ==
  \/ RepoUpdateRange
  \/ RepoInitializeSeriesRange

SpecRange == InitCold /\ [][NextRange]_vars

----------------------------------------------------------------------------
(* getQuotes / getChart: one executeWithRetry call per slot *)

Requesting(p) == reqs[p].pc \notin {"idle", "returned", "thrown"}

\* entry of getQuotes / getChart: executeWithRetry starts with enforceRateLimit
RetryStart(p, limit) ==
  /\ ~Requesting(p)
  /\ \A q \in Procs : q < p => Requesting(q)
  /\ started < limit
  /\ started' = started + 1
  /\ \E fn \in {"getQuotes", "getChart"} :
       reqs' = [reqs EXCEPT ![p] = [IdleReq EXCEPT !.pc = "get", !.fn = fn]]
  /\ UNCHANGED <<upDays, upTick, series, points, lock, marker, calls, rateKey>>

\* a governor that holds a caller back only above the limit
RateGetAboveLimit(p, ok) ==
  LET r == reqs[p]
  IN  /\ r.pc = "get"
      /\ reqs' = [reqs EXCEPT ![p] =
           IF ~ok THEN [r EXCEPT !.pc = "safetyDelay"]
           ELSE IF rateKey.count > MAX_REQUESTS_PER_MINUTE THEN [r EXCEPT !.pc = "ttl"]
           ELSE IF rateKey.count = 0 THEN [r EXCEPT !.pc = "setEx"]
           ELSE [r EXCEPT !.pc = "incr"]]
      /\ UNCHANGED <<upDays, upTick, series, points, lock, marker, calls, started, rateKey>>

\* enforceRateLimit: await get, parseInt, then the branch on the count
RateGet(p, ok) ==
  LET r == reqs[p]
  IN  /\ r.pc = "get"
      /\ reqs' = [reqs EXCEPT ![p] =
           IF ~ok THEN [r EXCEPT !.pc = "safetyDelay"]
           ELSE IF rateKey.count >= MAX_REQUESTS_PER_MINUTE THEN [r EXCEPT !.pc = "ttl"]
           ELSE IF rateKey.count = 0 THEN [r EXCEPT !.pc = "setEx"]
           ELSE [r EXCEPT !.pc = "incr"]]
      /\ UNCHANGED <<upDays, upTick, series, points, lock, marker, calls, started, rateKey>>

\* a ttl read whose failure is thrown to the caller of enforceRateLimit
RateTtlRaises(p, ok) ==
  LET r == reqs[p]
      positive == rateKey.count > 0 /\ rateKey.expires
      redisError == [status |-> Null, message |-> <<"socket hang up">>]
  IN  /\ r.pc = "ttl"
      /\ reqs' = [reqs EXCEPT ![p] =
           IF ~ok THEN [r EXCEPT !.pc = "thrown", !.error = redisError]
           ELSE [r EXCEPT !.pc = "wait", !.wait = IF positive THEN "ttl" ELSE "minute"]]
      /\ UNCHANGED <<upDays, upTick, series, points, lock, marker, calls, started, rateKey>>

\* enforceRateLimit: await ttl; a positive ttl is waited out, else one minute
RateTtl(p, ok) ==
  LET r == reqs[p]
      positive == rateKey.count > 0 /\ rateKey.expires
  IN  /\ r.pc = "ttl"
      /\ reqs' = [reqs EXCEPT ![p] =
           IF ~ok THEN [r EXCEPT !.pc = "safetyDelay"]
           ELSE [r EXCEPT !.pc = "wait", !.wait = IF positive THEN "ttl" ELSE "minute"]]
      /\ UNCHANGED <<upDays, upTick, series, points, lock, marker, calls, started, rateKey>>

\* enforceRateLimit: the sleep(waitTime) is over (a waited-out ttl means the key it was
\* read from has expired), then the recursive call starts over
RateWait(p) ==
  LET r == reqs[p]
  IN  /\ r.pc = "wait"
      /\ r.wait \in {"expired", "minute"}
      /\ reqs' = [reqs EXCEPT ![p] =
           [r EXCEPT !.pc = "get", !.wait = "none",
                     !.rounds = IF r.rounds < MaxRounds THEN r.rounds + 1 ELSE MaxRounds]]
      /\ UNCHANGED <<upDays, upTick, series, points, lock, marker, calls, started, rateKey>>

\* enforceRateLimit: await setEx(key, 60, '1')
RateSetEx(p, ok) ==
  LET r == reqs[p]
  IN  /\ r.pc = "setEx"
      /\ rateKey' = (IF ok THEN [count |-> 1, expires |-> TRUE, sent |-> 0] ELSE rateKey)
      /\ reqs' = [reqs EXCEPT ![p] = [r EXCEPT !.pc = IF ok THEN "pause" ELSE "safetyDelay"]]
      /\ UNCHANGED <<upDays, upTick, series, points, lock, marker, calls, started>>

\* enforceRateLimit: await incr(key); redis creates a missing key at 1 without expiry
RateIncr(p, ok) ==
  LET r == reqs[p]
  IN  /\ r.pc = "incr"
      /\ rateKey' = (IF ok THEN [rateKey EXCEPT !.count = @ + 1] ELSE rateKey)
      /\ reqs' = [reqs EXCEPT ![p] = [r EXCEPT !.pc = IF ok THEN "pause" ELSE "safetyDelay"]]
      /\ UNCHANGED <<upDays, upTick, series, points, lock, marker, calls, started>>

\* enforceRateLimit returns: after sleep(3000), or after sleep(500) in the catch
RateReturn(p) ==
  LET r == reqs[p]
  IN  /\ r.pc \in {"pause", "safetyDelay"}
      /\ reqs' = [reqs EXCEPT ![p] = [r EXCEPT !.pc = "operation"]]
      /\ UNCHANGED <<upDays, upTick, series, points, lock, marker, calls, started, rateKey>>

\* where one invocation of the operation that threw error leaves the loop
\* (last: what the latest invocation did; error: what executeWithRetry has thrown)
AfterError(r, error) ==
  IF isRateLimitError(error) /\ r.attempt < MAX_RETRIES
    THEN [r EXCEPT !.pc = "sleep", !.last = error]
    ELSE [r EXCEPT !.pc = "thrown", !.last = error, !.error = error]

\* the counter key after one more operation invocation in its lifetime
Invoked(k) ==
  IF k.count > 0 /\ k.expires /\ k.sent <= MAX_REQUESTS_PER_MINUTE
    THEN [k EXCEPT !.sent = @ + 1] ELSE k

\* executeWithRetry: the loop test, then await operation(), which returns or throws
\* one of errors
OperationOf(p, errors) ==
  LET r == reqs[p]
      i == [r EXCEPT !.invocations = r.invocations + 1]
  IN  /\ r.pc = "operation"
      /\ IF r.attempt > MAX_RETRIES
           THEN /\ reqs' = [reqs EXCEPT ![p] =
                       [r EXCEPT !.pc = "thrown", !.error = MaxRetriesExceeded]]
                /\ rateKey' = rateKey
           ELSE /\ \/ reqs' = [reqs EXCEPT ![p] = [i EXCEPT !.pc = "returned", !.last = NoError]]
                   \/ \E error \in errors : reqs' = [reqs EXCEPT ![p] = AfterError(i, error)]
                /\ rateKey' = Invoked(rateKey)
      /\ UNCHANGED <<upDays, upTick, series, points, lock, marker, calls, started>>

Operation(p) == OperationOf(p, Errors)

\* executeWithRetry: sleep(RETRY_DELAY_MS * 2^attempt) is over, continue with attempt + 1
Sleep(p) ==
  LET r == reqs[p]
  IN  /\ r.pc = "sleep"
      /\ reqs' = [reqs EXCEPT ![p] =
           [r EXCEPT !.pc = "operation", !.attempt = r.attempt + 1,
                     !.backoff = r.backoff + RETRY_DELAY_MS * 2 ^ r.attempt]]
      /\ UNCHANGED <<upDays, upTick, series, points, lock, marker, calls, started, rateKey>>

\* redis drops the counter key when its 60 s expiry has run out
RateKeyExpire ==
  /\ rateKey.count > 0
  /\ rateKey.expires
  /\ rateKey' = NoRateKey
  /\ reqs' = [p \in Procs |->
       IF reqs[p].pc = "wait" /\ reqs[p].wait = "ttl"
         THEN [reqs[p] EXCEPT !.wait = "expired"] ELSE reqs[p]]
  /\ UNCHANGED <<upDays, upTick, series, points, lock, marker, calls, started>>

\* one error of each kind: throttling by status, throttling by message, and neither
SomeErrors ==
  {[status |-> 429, message |-> <<>>],
   [status |-> Null, message |-> <<"Failed to get crumb">>],
   [status |-> 500, message |-> <<"socket hang up">>]}

\* concurrent callers of the upstream client; redis may fail and the key may expire
NextRetry ==
  \/ \E p \in Procs : RetryStart(p, MaxRetryStarts)
  \/ \E p \in Procs, ok \in BOOLEAN : RateGet(p, ok)
  \/ \E p \in Procs, ok \in BOOLEAN : RateTtl(p, ok)
  \/ \E p \in Procs : RateWait(p)
  \/ \E p \in Procs, ok \in BOOLEAN : RateSetEx(p, ok)
  \/ \E p \in Procs, ok \in BOOLEAN : RateIncr(p, ok)
  \/ \E p \in Procs : RateReturn(p)
  \/ \E p \in Procs : OperationOf(p, SomeErrors)
  \/ \E p \in Procs : Sleep(p)
  \/ RateKeyExpire

\* the client on its own: no resolve call, an empty store; the counter key is absent
\* or as earlier requests of the running minute left it
InitRetry ==
  /\ upDays = {}
  /\ upTick = 0
  /\ series = NoRow
  /\ points = [d \in Days |-> Absent]
  /\ lock = "free"
  /\ marker = FALSE
  /\ calls = [p \in Procs |-> IdleCall]
  /\ started = 0
  /\ \E n \in 0..MAX_REQUESTS_PER_MINUTE :
       rateKey = [count |-> n, expires |-> n > 0, sent |-> n]
  /\ reqs = [p \in Procs |-> IdleReq]

SpecRetry == InitRetry /\ [][NextRetry]_vars

\* concurrent callers of the upstream client on a redis that answers every command
NextRetryRace ==
  \/ \E p \in Procs : RetryStart(p, MaxRetryStarts)
  \/ \E p \in Procs : RateGet(p, TRUE)
  \/ \E p \in Procs : RateTtl(p, TRUE)
  \/ \E p \in Procs : RateWait(p)
  \/ \E p \in Procs : RateSetEx(p, TRUE)
  \/ \E p \in Procs : RateIncr(p, TRUE)
  \/ \E p \in Procs : RateReturn(p)
  \/ \E p \in Procs : OperationOf(p, SomeErrors)
  \/ \E p \in Procs : Sleep(p)
  \/ RateKeyExpire

SpecRetryRace == InitRetry /\ [][NextRetryRace]_vars

\* one caller of the upstream client at a time
NextRetrySeq ==
  \/ RetryStart(1, MaxRetrySeqStarts)
  \/ \E ok \in BOOLEAN : RateGet(1, ok)
  \/ \E ok \in BOOLEAN : RateTtl(1, ok)
  \/ RateWait(1)
  \/ \E ok \in BOOLEAN : RateSetEx(1, ok)
  \/ \E ok \in BOOLEAN : RateIncr(1, ok)
  \/ RateReturn(1)
  \/ Operation(1)
  \/ Sleep(1)
  \/ RateKeyExpire

SpecRetrySeq == InitRetry /\ [][NextRetrySeq]_vars

\* one step of enforceRateLimit by caller p: a redis command answered or failed, or a
\* sleep that is over
GovernorStep(p) ==
  \/ \E ok \in BOOLEAN : RateGet(p, ok) \/ RateTtl(p, ok) \/ RateSetEx(p, ok) \/ RateIncr(p, ok)
  \/ RateWait(p)
  \/ RateReturn(p)

\* the same, where every awaited command and sleep of the caller ends and a key with an
\* expiry does expire
SpecRetrySeqFair ==
  SpecRetrySeq /\ WF_vars(GovernorStep(1)) /\ WF_vars(RateKeyExpire)

----------------------------------------------------------------------------
(* Properties *)

\* the points a result carries, whichever its shape
ResultPoints(r) ==
  IF "quotes" \in DOMAIN r THEN r.quotes
  ELSE [i \in 1..Len(r.timestamp) |->
          Point(r.timestamp[i] \div (86400 \div TicksPerDay), r.closes[i])]

Returned(p) == calls[p].pc = "done" /\ calls[p].err = "none"

RangeSet(s) == s # NoRow /\ s.oldest # Null /\ s.newest # Null

\* the range a call read has both bounds and contains [from, to]
Covered(c) ==
  /\ c.oldestDate # Null
  /\ c.newestDate # Null
  /\ c.oldestDate <= c.p1
  /\ c.p2 <= c.newestDate

\* C1: a call that read a stored range with both bounds containing [from, to] returns,
\* without any upstream fetch, exactly the points stored for [from, to] when it reads them.
FullCoverageNoFetch ==
  [][\A p \in Procs :
       (/\ calls[p].pc \in {"getPoints", "finalRead"}
        /\ Covered(calls[p])
        /\ calls'[p] # calls[p])
       => /\ calls'[p].pc \in {"finalRead", "done"}
          /\ calls'[p].fetches = {}
          /\ calls'[p].pc = "done" =>
                /\ calls'[p].err = "none"
                /\ ResultPoints(calls'[p].ret) = getPoints(points, calls[p].p1, calls[p].p2)]_vars

\* C1 witness: both functions have served a range of two or more days, a point stored
\* for each of them, inside the stored range and without a fetch
FullCoverageServed ==
  \E p, q \in Procs :
    /\ calls[p].fn = "chart" /\ calls[q].fn = "quotes"
    /\ \A x \in {p, q} :
         /\ Returned(x)
         /\ calls[x].fetches = {}
         /\ calls[x].p1 < calls[x].p2
         /\ RangeSet(series)
         /\ DateToTime(series.oldest) <= calls[x].p1
         /\ calls[x].p2 <= DateToTime(series.newest)
         /\ \A d \in formatDate(calls[x].p1)..formatDate(calls[x].p2) :
              /\ points[d] # Absent
              /\ \E i \in 1..Len(ResultPoints(calls[x].ret)) :
                   ResultPoints(calls[x].ret)[i] = Point(DateToTime(d), points[d])

\* C2: at most one call is between a granted acquireBackfillLock and its release.
OneBackfillInFlight ==
  \A p, q \in Procs : (InBackfill(p) /\ InBackfill(q)) => p = q

\* C3: two calls that overlap in time never both fetch the same older-edge sub-range.
OneFetchPerOlderSubRange ==
  \A p, q \in Procs :
    (p # q /\ Active(p) /\ Active(q))
    => ~\E f \in calls[p].fetches \cap calls[q].fetches : f[1] = "older"

\* C4: a stored bound that is set stays set, oldestDate never increases and newestDate
\* never decreases, whatever updateRange and initializeSeriesRange calls are made.
RangeOnlyWidens ==
  [][series # NoRow =>
       /\ series' # NoRow
       /\ series.oldest # Null => (series'.oldest # Null /\ series'.oldest <= series.oldest)
       /\ series.newest # Null => (series'.newest # Null /\ series'.newest >= series.newest)]_vars

\* C4 witness: after several repository calls the range has both bounds, apart
RangeWidened ==
  /\ started = MaxRepoCalls
  /\ RangeSet(series)
  /\ series.oldest < series.newest

\* C5: once the range has both bounds, every stored point lies within it.
PointsWithinRange ==
  RangeSet(series) =>
    \A d \in Days : points[d] # Absent => (series.oldest <= d /\ d <= series.newest)

\* C6: the store holds every bar the provider has for a day inside the stored range.
RangeIsComplete ==
  RangeSet(series) =>
    \A d \in upDays : (series.oldest <= d /\ d <= series.newest) => points[d] = CloseOf(d)

\* the calendar date and close of each point of a sequence
DatedCloses(qs) == {<<formatDate(qs[i].date), qs[i].close>> : i \in 1..Len(qs)}

\* C7: alone and without errors, a resolve returns exactly the provider's bars of [from, to].
ReturnsAllUpstreamPoints ==
  \A p \in Procs :
    Returned(p) =>
      DatedCloses(ResultPoints(calls[p].ret)) =
        {<<d, CloseOf(d)>> : d \in {x \in upDays : formatDate(calls[p].p1) <= x
                                                  /\ x <= formatDate(calls[p].p2)}}

\* C8: a returned sequence is sorted ascending by date.
ReturnedSorted ==
  \A p \in Procs :
    Returned(p) =>
      LET r == ResultPoints(calls[p].ret)
      IN  \A i, j \in 1..Len(r) : i < j => r[i].date <= r[j].date

\* C9: a cold start that ran alone and got the non-empty P leaves the range
\* [min date of P, max date of P] and exactly the points of P, and returns P.
ColdStartExact ==
  [][\A p \in Procs :
       (calls[p].pc = "initializeSeriesRange" /\ calls'[p].pc = "done")
       => LET P == calls[p].quotes
              D == {formatDate(P[i].date) : i \in 1..Len(P)}
          IN  /\ series' = [oldest |-> SetMin(D), newest |-> SetMax(D)]
              /\ \A d \in Days :
                   IF d \in D THEN \E i \in 1..Len(P) : P[i] = Point(P[i].date, points'[d])
                                                       /\ formatDate(P[i].date) = d
                   ELSE points'[d] = Absent
              /\ calls'[p].err = "none"
              /\ ResultPoints(calls'[p].ret) = P]_vars

\* C9 witness: a cold start has returned two or more bars and the range spans them
ColdStartStored ==
  \E p \in Procs :
    /\ Returned(p)
    /\ \E f \in calls[p].fetches : f[1] = "cold"
    /\ Len(ResultPoints(calls[p].ret)) >= 2
    /\ RangeSet(series)
    /\ series.oldest < series.newest

\* C10: a cold start whose fetch returns no point returns an empty sequence without
\* raising and writes nothing: series row, points and marker are as before.
ColdStartEmpty ==
  [][\A p \in Procs :
       (/\ calls[p].pc = "fetch"
        /\ calls[p].edge = "cold"
        /\ UpstreamPoints(calls[p].p1, calls[p].p2) = {}
        /\ calls'[p] # calls[p])
       => /\ calls'[p].pc = "done"
          /\ calls'[p].err = "none"
          /\ ResultPoints(calls'[p].ret) = <<>>
          /\ series' = series
          /\ points' = points
          /\ marker' = marker]_vars

\* C10 witness: a cold start has returned empty, and there is still no series row
ColdStartReturnedEmpty ==
  \E p \in Procs :
    /\ Returned(p)
    /\ \E f \in calls[p].fetches : f[1] = "cold"
    /\ ResultPoints(calls[p].ret) = <<>>
    /\ series = NoRow
    /\ points = [d \in Days |-> Absent]
    /\ ~marker

\* the awaits of a call that store fetched points
StoreWrites == {"insertSeries", "insertPoint", "updateRange", "initializeSeriesRange"}

\* the await at which call p stands throws in this step
ThrowsAt(p, pcs) ==
  /\ calls[p].pc \in pcs
  /\ <<calls[p].edge, calls[p].pc>> \in calls'[p].failed
  /\ <<calls[p].edge, calls[p].pc>> \notin calls[p].failed

\* C11: a cold-start getChart that throws makes the call fail with the upstream error,
\* and the store stays as it was: no series row, no points.
ColdStartUpstreamFailure ==
  [][\A p \in Procs :
       (ThrowsAt(p, {"fetch"}) /\ calls[p].edge = "cold")
       => /\ calls'[p].pc = "done"
          /\ calls'[p].err = "upstream"
          /\ calls'[p].ret = NoResult
          /\ series' = NoRow
          /\ points' = [d \in Days |-> Absent]]_vars

\* C11 witness: a cold start has failed on the provider and nothing is stored
ColdStartFailed ==
  \E p \in Procs :
    /\ calls[p].pc = "done"
    /\ calls[p].err = "upstream"
    /\ <<"cold", "fetch">> \in calls[p].failed
    /\ upDays # {}
    /\ series = NoRow

\* C12: on the warm path a getChart that throws on an edge leaves the stored range as it
\* is and does not end the call; the call returns the points stored for [from, to].
WarmUpstreamFailureServesStore ==
  [][\A p \in Procs :
       /\ (ThrowsAt(p, {"fetch"}) /\ calls[p].edge # "cold")
          => (series' = series /\ points' = points /\ calls'[p].pc # "done")
       /\ (/\ calls[p].pc = "finalRead"
           /\ calls'[p].pc = "done"
           /\ calls'[p].failed # {}
           /\ \A f \in calls'[p].failed : f[2] = "fetch")
          => /\ calls'[p].err = "none"
             /\ DatedCloses(ResultPoints(calls'[p].ret))
                  = DatedCloses(getPoints(points, calls[p].p1, calls[p].p2))]_vars

\* C13: a call in which a statement storing fetched points has thrown ends with that
\* failure, on the cold start and on the warm path alike.
StoreFailureSurfaces ==
  \A p \in Procs :
    (calls[p].pc = "done" /\ \E f \in calls[p].failed : f[2] \in StoreWrites)
    => calls[p].err = "store"

\* C14: the marker is set exactly when an older-edge fetch returned no point; no
\* older-edge fetch is made while the marker is present; once it has expired the
\* older edge is attempted again.
NoOlderDataMarker ==
  [][/\ (marker' /\ ~marker)
        => \E p \in Procs : /\ calls[p].pc = "setNoOlderData"
                            /\ calls[p].edge = "older"
                            /\ \E f \in calls[p].fetches :
                                 f[1] = "older" /\ UpstreamPoints(f[2], f[3]) = {}
     /\ \A p \in Procs :
          /\ (calls[p].pc = "fetch" /\ calls[p].edge = "older" /\ calls'[p] # calls[p])
             => /\ ~marker
                /\ (UpstreamPoints(FetchStart(calls[p]), FetchEnd(calls[p])) = {})
                     <=> (calls'[p].pc = "setNoOlderData")
          /\ (calls[p].pc = "setNoOlderData" /\ calls'[p] # calls[p]) => marker'
          /\ (calls[p].pc = "checkNoOlderData" /\ calls'[p] # calls[p])
             => IF marker
                  THEN calls'[p].edge # "older" /\ calls'[p].fetches = calls[p].fetches
                  ELSE (calls[p].p1 <= addDays(calls[p].oldestDate, -1))
                         => (calls'[p].pc = "setNX" /\ calls'[p].edge = "older")]_vars

\* C14 witness: the marker is present and a call asking for days before the stored
\* range has returned without any fetch
OlderFetchSkipped ==
  \E p \in Procs :
    /\ marker
    /\ Returned(p)
    /\ RangeSet(series)
    /\ calls[p].p1 < DateToTime(series.oldest)
    /\ calls[p].p2 <= DateToTime(series.newest)
    /\ calls[p].fetches = {}

\* C15: when setNX or expire throws, the lock counts as granted and the edge is fetched.
LockErrorFailsOpen ==
  [][\A p \in Procs :
       ThrowsAt(p, {"setNX", "expire"})
       => (calls'[p].pc = "fetch" /\ calls'[p].edge = calls[p].edge)]_vars

\* C16: a lock key without an expiry exists only while its holder is about to set the
\* expiry; every other lock key carries the TTL and goes away by itself.
LockCarriesExpiry ==
  (lock = "held") => \E p \in Procs : calls[p].pc = "expire"

\* C17: a call whose acquireBackfillLock is denied leaves the lock alone, goes on to
\* the next block without a fetch for that edge and without asking again, and returns
\* the points stored for [from, to].
DeniedEdgeServesStore ==
  [][\A p \in Procs :
       /\ (calls[p].pc = "setNX" /\ lock # "free" /\ calls'[p] # calls[p])
          => /\ lock' = lock
             /\ calls'[p].fetches = calls[p].fetches
             /\ calls'[p].edge # calls[p].edge
             /\ calls'[p].pc \in {"setNX", "finalRead"}
       /\ (calls[p].pc = "finalRead" /\ calls'[p].pc = "done" /\ calls[p].denied # {})
          => /\ calls'[p].err = "none"
             /\ \A f \in calls'[p].fetches : f[1] \notin calls[p].denied
             /\ DatedCloses(ResultPoints(calls'[p].ret))
                  = DatedCloses(getPoints(points, calls[p].p1, calls[p].p2))]_vars

\* C18: one executeWithRetry call invokes its operation at most 8 times.
AtMostEightInvocations ==
  \A p \in Procs : reqs[p].invocations <= MAX_RETRIES

\* throttling as the claim words it: status 429, or '429', 'Too Many Requests' or
\* 'Failed to get crumb' in the message
Throttling(error) ==
  \/ error.status = 429
  \/ \E i \in 1..Len(error.message) :
       error.message[i] \in {"429", "Too Many Requests", "Failed to get crumb"}

\* C19: an invocation that fails with an error that is not throttling makes executeWithRetry
\* throw that error at once, without a backoff sleep (a first invocation: after exactly
\* one invocation); an invocation is followed by a retry only after a throttling error.
NonThrottlingNotRetried ==
  [][\A p \in Procs :
       (reqs[p].pc = "operation" /\ reqs'[p] # reqs[p])
       => /\ (reqs'[p].last # NoError /\ ~Throttling(reqs'[p].last))
             => /\ reqs'[p].pc = "thrown"
                /\ reqs'[p].error = reqs'[p].last
                /\ reqs'[p].invocations = reqs[p].invocations + 1
                /\ reqs'[p].backoff = reqs[p].backoff
                /\ reqs[p].attempt = 0 => (reqs'[p].invocations = 1 /\ reqs'[p].backoff = 0)
          /\ (reqs'[p].pc = "sleep") => Throttling(reqs'[p].last)]_vars

\* C19 witness: a call has thrown the error with status 500 of its one invocation, and
\* has not slept
ThrownAtOnce ==
  \E p \in Procs :
    /\ reqs[p].pc = "thrown"
    /\ reqs[p].error.status = 500
    /\ ~Throttling(reqs[p].error)
    /\ reqs[p].invocations = 1
    /\ reqs[p].backoff = 0
    /\ reqs[p].last = reqs[p].error

\* C20: a call whose every invocation failed with a throttling error ends by throwing
\* 'Max retries exceeded'.
ExhaustionRaisesMaxRetries ==
  \A p \in Procs :
    (reqs[p].pc = "thrown" /\ reqs[p].last # NoError /\ Throttling(reqs[p].last))
    => reqs[p].error = MaxRetriesExceeded

\* C21: within one lifetime of the counter key (one 60-second window) at most
\* MAX_REQUESTS_PER_MINUTE operation invocations are made, retries included, by all
\* callers together and however their counter reads and increments interleave.
AtMostThreePerWindow == rateKey.sent <= MAX_REQUESTS_PER_MINUTE

\* the steps of enforceRateLimit at which a redis command is awaited
GovernorCommands == {"get", "ttl", "setEx", "incr"}

\* C22: of calls made one after another, one that reads a count below 3 passes the governor
\* (the count goes up by one, then the pause, then the operation); one that reads 3 or
\* more reads the ttl and sleeps, without invoking the operation, until the key it read
\* has expired, and then reads the counter again.
FourthCallWaits ==
  [][\A p \in Procs :
       LET r == reqs[p]
           n == reqs'[p]
       IN  (r # n /\ n.pc # "safetyDelay") =>
             /\ r.pc = "get" =>
                  /\ n.invocations = 0
                  /\ IF rateKey.count < 3 THEN n.pc \in {"setEx", "incr"} ELSE n.pc = "ttl"
             /\ r.pc \in {"setEx", "incr"} =>
                  /\ n.pc = "pause"
                  /\ rateKey'.count = IF r.pc = "incr" THEN rateKey.count + 1 ELSE 1
             /\ r.pc = "pause" => n.pc = "operation"
             /\ r.pc = "ttl" => n.pc = "wait" /\ n.invocations = 0
             /\ r.pc = "wait" =>
                  /\ n.invocations = 0
                  /\ n.pc \in {"wait", "get"}
                  /\ (n.pc = "get" /\ r.wait # "minute") => rateKey.count = 0]_vars

\* C22 witness: the fourth call of a row has waited one round, found the key gone, set it
\* anew and stands before its first invocation
FourthCallWaited ==
  /\ started = 4
  /\ reqs[1].pc = "operation"
  /\ reqs[1].rounds = 1
  /\ reqs[1].invocations = 0
  /\ rateKey = [count |-> 1, expires |-> TRUE, sent |-> 0]

\* the caller is inside enforceRateLimit
InGovernor(p) ==
  reqs[p].pc \in GovernorCommands \cup {"wait", "pause", "safetyDelay"}

\* C23: a caller that has entered enforceRateLimit leaves it after finitely many rounds.
EnforceRateLimitReturns ==
  \A p \in Procs : InGovernor(p) ~> ~InGovernor(p)

\* a redis command of caller p's enforceRateLimit fails in this step
GovernorCommandFails(p) ==
  RateGet(p, FALSE) \/ RateTtl(p, FALSE) \/ RateSetEx(p, FALSE) \/ RateIncr(p, FALSE)

\* C24: when get, ttl, setEx or incr fails, enforceRateLimit throws nothing and leaves the
\* key alone; the caller goes to the short safety delay and from there straight to the
\* operation, without a round of waiting.
GovernorFailsOpen ==
  [][\A p \in Procs :
       /\ GovernorCommandFails(p) =>
            /\ reqs'[p].pc = "safetyDelay"
            /\ reqs'[p].error = NoError
            /\ rateKey' = rateKey
       /\ (reqs[p].pc = "safetyDelay" /\ reqs'[p] # reqs[p]) =>
            /\ reqs'[p].pc = "operation"
            /\ reqs'[p].rounds = reqs[p].rounds
            /\ reqs'[p].error = NoError]_vars

\* C24 witness: the first call stands before its first invocation although the key it met
\* was full: only a failed redis command lets it through
PassedOnGovernorFailure ==
  /\ started = 1
  /\ reqs[1].pc = "operation"
  /\ reqs[1].invocations = 0
  /\ reqs[1].rounds = 0
  /\ rateKey = [count |-> 3, expires |-> TRUE, sent |-> 3]

\* C25: whatever is stored, inserting a list leaves for each calendar day named in it the
\* close of the last entry for that day (one value per day, stored or not before) and every
\* other day as it was; inserting the same list again changes nothing.
InsertIsUpsert ==
  LET store == [series |-> series, points |-> points]
  IN  \A qs \in RepoLists :
        LET once == insertPoints(store, qs)
            dated == sanitizeQuotes(qs)
        IN  /\ insertPoints(once, qs) = once
            /\ \A d \in Days :
                 once.points[d] = IF HasKey(dated, d) THEN LastWithKey(dated, d).close
                                  ELSE points[d]

\* C25 witness: the store is what inserting two points of one day with different closes
\* leaves: one point for that day, with the second close
SecondCloseStored ==
  \E qs \in RepoLists :
    /\ Len(qs) = 2
    /\ qs[1].date # Invalid /\ qs[2].date # Invalid
    /\ formatDate(qs[1].date) = formatDate(qs[2].date)
    /\ qs[1].close # qs[2].close
    /\ started >= 1
    /\ series # NoRow
    /\ points = [d \in Days |-> IF d = formatDate(qs[2].date) THEN qs[2].close ELSE Absent]

\* C26: on an existing series row, two updateRange calls with any arguments, null or not,
\* leave the same bounds in either order, a call made twice leaves what it leaves once, a
\* null argument leaves its bound as it is and a null bound takes the argument's date.
UpdateRangeConverges ==
  series # NoRow =>
    \A o1, n1 \in RepoDates :
      LET once == updateRange(series, o1, n1)
      IN  /\ updateRange(once, o1, n1) = once
          /\ o1 = Null => once.oldest = series.oldest
          /\ n1 = Null => once.newest = series.newest
          /\ series.oldest = Null => once.oldest = SqlDate(o1)
          /\ series.newest = Null => once.newest = SqlDate(n1)
          /\ \A o2, n2 \in RepoDates :
               updateRange(once, o2, n2) = updateRange(updateRange(series, o2, n2), o1, n1)

\* C26 witness: after two calls the row has its newest bound and a null oldest bound: a
\* null argument has left the null bound null, the other bound has taken a date
NewestAdopted ==
  /\ started = 2
  /\ series # NoRow
  /\ series.oldest = Null
  /\ series.newest # Null

\* the call returned from the cold-start branch
ColdReturned(p) == Returned(p) /\ \E f \in calls[p].fetches : f[1] = "cold"

\* the calendar days of the points a call returned
ReturnedDays(p) ==
  {formatDate(ResultPoints(calls[p].ret)[i].date) : i \in 1..Len(ResultPoints(calls[p].ret))}

\* C27: once two concurrent cold starts have both returned, the stored range is
\* [min, max] over the days both fetched and the stored points are the union of both
\* fetches, one point per day, whatever the order of their store writes.
ConcurrentColdStartsMerge ==
  \A p, q \in Procs :
    (p # q /\ ColdReturned(p) /\ ColdReturned(q)) =>
      LET D == ReturnedDays(p) \cup ReturnedDays(q)
      IN  /\ series = IF D = {} THEN NoRow ELSE [oldest |-> SetMin(D), newest |-> SetMax(D)]
          /\ points = [d \in Days |-> IF d \in D THEN CloseOf(d) ELSE Absent]

\* C27 witness: two cold starts have returned points of different days, neither's days
\* containing the other's, and the stored range spans both
ColdStartsMerged ==
  \E p, q \in Procs :
    /\ p # q
    /\ ColdReturned(p) /\ ColdReturned(q)
    /\ ReturnedDays(p) \ ReturnedDays(q) # {}
    /\ ReturnedDays(q) \ ReturnedDays(p) # {}
    /\ series = [oldest |-> SetMin(ReturnedDays(p) \cup ReturnedDays(q)),
                 newest |-> SetMax(ReturnedDays(p) \cup ReturnedDays(q))]

\* the sequence a call returns from the await it stands at, as getChartDataAsQuotes
\* would return it from the same store and call state
QuotesReturnedAt(c) ==
  CASE c.pc = "finalRead" ->
         filterPoints(mergePoints(getPoints(points, c.p1, c.p2), c.pointsToMerge), c.p1, c.p2)
    [] c.pc = "getPoints" ->
         filterPoints(mergePoints(getPoints(points, c.p1, c.p2), <<>>), c.p1, c.p2)
    [] c.pc = "initializeSeriesRange" -> c.quotes
    [] OTHER -> <<>>

\* r is the chart shape of the quote sequence qs
ChartShapeOf(r, qs) ==
  /\ DOMAIN r = {"timestamp", "closes"}
  /\ Len(r.timestamp) = Len(qs)
  /\ Len(r.closes) = Len(qs)
  /\ \A i \in 1..Len(qs) :
       /\ r.timestamp[i] = qs[i].date * (86400 \div TicksPerDay)
       /\ r.closes[i] = qs[i].close

\* C28: the two functions differ in two places only. Where getChartData returns from its
\* first read, getChartDataAsQuotes, from the same state, goes to the final read without a
\* fetch and returns the same points; where getChartData goes on, it stands where
\* getChartDataAsQuotes stands after getStoredRange. And every return of getChartData
\* is the {timestamp, closes} shape of the sequence getChartDataAsQuotes returns there:
\* timestamp[i] the epoch seconds of quotes[i].date, closes[i] = quotes[i].close.
ChartMatchesQuotes ==
  [][\A p \in Procs :
       LET c == calls[p]
           n == calls'[p]
           asQuotes == AfterEdge([c EXCEPT !.fn = "quotes"], 0)
       IN  /\ (c.pc = "getPoints" /\ n # c) =>
                /\ c.fn = "chart"
                /\ n.pc # "done" => n = [asQuotes EXCEPT !.fn = "chart"]
                /\ n.pc = "done" => /\ asQuotes.pc = "finalRead"
                                    /\ asQuotes.pointsToMerge = <<>>
                                    /\ n.fetches = asQuotes.fetches
           /\ (c.pc # "done" /\ n.pc = "done" /\ n.err = "none") =>
                IF c.fn = "chart" THEN ChartShapeOf(n.ret, QuotesReturnedAt(c))
                ELSE n.ret = [quotes |-> QuotesReturnedAt(c)]
           /\ (c.pc \notin {"idle", "done"} /\ n.pc # "idle") => n.fn = c.fn]_vars

\* C28 witness: one call of each function has returned for the same request after the
\* same fetch, and the chart result is the shape of the quotes result, point by point
BothShapesReturned ==
  \E p, q \in Procs :
    /\ calls[p].fn = "chart" /\ calls[q].fn = "quotes"
    /\ Returned(p) /\ Returned(q)
    /\ calls[p].p1 = calls[q].p1 /\ calls[p].p2 = calls[q].p2
    /\ calls[p].fetches = calls[q].fetches
    /\ calls[p].fetches # {}
    /\ Len(calls[q].ret.quotes) >= 2
    /\ ChartShapeOf(calls[p].ret, calls[q].ret.quotes)

\* C29: when redis fails under checkNoOlderData the call takes the answer as false and
\* goes on to acquire the lock for the older fetch; when it fails under setNoOlderData
\* nothing is thrown and the call goes on to release the lock; in neither case does the
\* call end there.
MarkerStoreFailsOpen ==
  [][\A p \in Procs :
       /\ ThrowsAt(p, {"checkNoOlderData"}) =>
            /\ calls'[p].pc = "setNX"
            /\ calls'[p].edge = "older"
            /\ calls'[p].err = "none"
       /\ ThrowsAt(p, {"setNoOlderData"}) =>
            /\ calls'[p].pc = "releaseBackfillLock"
            /\ calls'[p].err = "none"
            /\ marker' = marker]_vars

\* C29 witness: a call has returned after both marker commands failed under it, and
\* it made the older-edge fetch
ReturnedDespiteMarkerStore ==
  \E p \in Procs :
    /\ Returned(p)
    /\ <<"older", "checkNoOlderData">> \in calls[p].failed
    /\ <<"older", "setNoOlderData">> \in calls[p].failed
    /\ \E f \in calls[p].fetches : f[1] = "older"

\* the fetches the claim allows a warm call with the snapshot [oldestDate, newestDate]
OlderSubRange(c) == <<"older", c.p1, c.oldestDate - TicksPerDay>>
NewerSubRange(c) == <<"newer", c.newestDate + TicksPerDay, c.p2>>

\* C30: on the warm path with both bounds read non-null, a fetch on the older edge is made
\* only if from < oldestDate, once, for [from, oldestDate - 1 day]; a fetch on the newer
\* edge only if to > newestDate, once, for [newestDate + 1 day, to]; no requested day lies
\* inside the stored range; and with no marker set and no lock denied, the call reaches
\* its final read having made each of the fetches its request calls for.
WarmEdgesFetchedOnce ==
  [][\A p \in Procs :
       LET c == calls[p]
           n == calls'[p]
           new == n.fetches \ c.fetches
       IN  (c.oldestDate # Null /\ c.newestDate # Null /\ n # c) =>
             /\ c.pc # "fetch" => n.fetches = c.fetches
             /\ c.pc = "fetch" =>
                  /\ Cardinality(new) = 1
                  /\ ~\E f \in c.fetches : f[1] = c.edge
                  /\ \A f \in new :
                       /\ f[2] <= f[3]
                       /\ \/ f = OlderSubRange(c) /\ c.p1 < c.oldestDate
                          \/ f = NewerSubRange(c) /\ c.p2 > c.newestDate
                       /\ \A d \in formatDate(f[2])..formatDate(f[3]) :
                            d < formatDate(c.oldestDate) \/ d > formatDate(c.newestDate)
             /\ (c.pc = "checkNoOlderData" /\ ~marker) => n.pc = "setNX"
             /\ (c.pc = "finalRead" /\ ~marker /\ c.denied = {}) =>
                  c.fetches = (IF c.p1 < c.oldestDate THEN {OlderSubRange(c)} ELSE {})
                                \cup (IF c.p2 > c.newestDate THEN {NewerSubRange(c)} ELSE {})]_vars

\* C30 witness: a call has returned after one fetch on each edge, the older one ending the
\* day before and the newer one starting the day after a stored range it did not touch
BothEdgesFetched ==
  \E p \in Procs :
    /\ Returned(p)
    /\ Cardinality(calls[p].fetches) = 2
    /\ \E f, g \in calls[p].fetches :
         /\ f[1] = "older" /\ f[2] = calls[p].p1
         /\ g[1] = "newer" /\ g[3] = calls[p].p2
         /\ f[3] + TicksPerDay < g[2]

\* C31: while the no-older-data marker stays present the series' oldestDate does not move
\* and no older-edge fetch returns a point, also when two calls passed the marker check
\* before either fetched.
MarkerMatchesOldest ==
  [][(marker /\ marker') =>
       /\ series' # NoRow => (series # NoRow /\ series'.oldest = series.oldest)
       /\ \A p \in Procs :
            (calls[p].pc = "fetch" /\ calls[p].edge = "older" /\ calls'[p] # calls[p])
            => calls'[p].pc = "setNoOlderData"]_vars

\* C32: a call that read a series row with both bounds null fetches on both sides, and
\* every fetch it makes is for the requested [from, to] itself.
NullBoundsFetchRequested ==
  [][\A p \in Procs :
       LET c == calls[p]
           n == calls'[p]
       IN  (/\ c.pc \notin {"idle", "done", "getStoredRange"}
            /\ c.edge # "cold"
            /\ c.oldestDate = Null /\ c.newestDate = Null
            /\ n # c) =>
             /\ needOlder(c) /\ needNewer(c)
             /\ \A f \in n.fetches \ c.fetches : f[2] = c.p1 /\ f[3] = c.p2]_vars

\* C40: every fetch a call has made was for a period1 not after its period2.
FetchPeriodsOrdered ==
  \A p \in Procs : \A f \in calls[p].fetches : f[2] <= f[3]

\* C33: a caller comes to an operation invocation only out of enforceRateLimit, so every
\* invocation, a retry too, has its own pass through the governor behind it.
EveryAttemptGoverned ==
  [][\A p \in Procs :
       (reqs'[p].pc = "operation" /\ reqs[p].pc # "operation") => InGovernor(p)]_vars

\* no two points of the sequence fall on one calendar day
OnePerDay(r) == \A i, j \in 1..Len(r) : i # j => formatDate(r[i].date) # formatDate(r[j].date)

\* every point of r on a day for which this call fetched a point has a fetched close
FetchedCloseWins(r, fetched) ==
  \A i \in 1..Len(r) :
    HasKey(fetched, formatDate(r[i].date)) =>
      \E k \in 1..Len(fetched) : /\ formatDate(fetched[k].date) = formatDate(r[i].date)
                                  /\ fetched[k].close = r[i].close

\* C34: whatever path a call returns on, the returned sequence has at most one point per
\* calendar day, and on a day for which the call fetched a point the returned close is a
\* fetched one, not the stored one.
OnePointPerDate ==
  [][\A p \in Procs :
       (calls[p].pc # "done" /\ calls'[p].pc = "done" /\ calls'[p].err = "none") =>
         /\ OnePerDay(ResultPoints(calls'[p].ret))
         /\ FetchedCloseWins(ResultPoints(calls'[p].ret),
                             calls[p].pointsToMerge \o calls[p].quotes)]_vars

\* C35: every point a call returns lies on a calendar day of the requested [from, to].
ReturnedWithinRequest ==
  \A p \in Procs :
    Returned(p) =>
      \A i \in 1..Len(ResultPoints(calls[p].ret)) :
        /\ formatDate(calls[p].p1) <= formatDate(ResultPoints(calls[p].ret)[i].date)
        /\ formatDate(ResultPoints(calls[p].ret)[i].date) <= formatDate(calls[p].p2)

\* the del of releaseBackfillLock failed under call p
ReleaseFailed(p) == \E x \in calls[p].failed : x[2] = "releaseBackfillLock"

\* C36: a call that was granted the lock stays in its backfill section until its
\* releaseBackfillLock, whatever the fetch and the store writes do; and when no call is
\* running and no release failed on redis, no lock key is left.
LockReleasedBeforeReturn ==
  /\ \A p \in Procs : InBackfill(p) => Active(p)
  /\ ((\A p \in Procs : ~Active(p) /\ ~ReleaseFailed(p)) => lock = "free")

\* the getChart invocations of a call record on the given fetch sites
FetchesOn(c, edges) == {f \in c.fetches : f[1] \in edges}

RateKeyHasExpiry == rateKey.count > 0 => rateKey.expires

\* a write of the stored range failed under some call
RangeWriteFailed ==
  \E q \in Procs : \E x \in calls[q].failed : x[2] \in {"initializeSeriesRange", "updateRange"}

\* C39: a call whose getStoredRange runs while another call is on the cold-start
\* path finds no series row or a row with both bounds set; and no call enters a
\* null-bound block (initOlder, initNewer) unless a range write has failed.
NoNullBoundsRead ==
  [][\A p \in Procs :
       LET c == calls[p]
           n == calls'[p]
       IN  /\ (/\ c.pc = "getStoredRange"
               /\ n # c
               /\ \E q \in Procs \ {p} : Active(q) /\ calls[q].edge = "cold")
                => (series = NoRow \/ RangeSet(series))
           /\ (n.edge \in {"initOlder", "initNewer"} /\ c.edge \notin {"initOlder", "initNewer"})
                => RangeWriteFailed]_vars
====
